---- MODULE Spec2Model ----
(***************************************************************************)
(* Cold-email campaign engine: the dataset validator, the per-recipient    *)
(* campaign loop of EmailSender, the Gmail transport it sends through and  *)
(* the Streamlit page handlers that upload a dataset and launch a run.     *)
(*                                                                         *)
(* Text values are sequences of atoms: an e-mail address is a sequence of  *)
(* characters, a template is a sequence of words and placeholder tokens.   *)
(* A DataFrame is a record of its column labels, its row index labels and  *)
(* its rows; a cell is a tagged value (text, number or NaN).               *)
(***************************************************************************)
EXTENDS Integers, Sequences, FiniteSets, TLC

VARIABLES
    environ,           \* os.environ after load_dotenv(): the required variables that are set
    df,                \* file_upload_section: the DataFrame read from the uploaded file
    validation,        \* file_upload_section: outcome of validate_company_data(df)
    session_state,     \* st.session_state
    campaign_results,  \* EmailSender.campaign_results
    credentials,       \* EmailSender.gmail_auth.credentials
    service,           \* EmailSender.gmail_auth.service
    pc,                \* position of the caller inside run_campaign
    company_data,      \* run_campaign argument: the DataFrame iterated
    pos,               \* 1-based position of the row iterrows() is at
    cur,               \* locals of the current iteration
    sleeps,            \* positions after which time.sleep(delay_seconds) was called
    sends,             \* the send_email calls of the run: position and what the transport did
    reported,          \* the results handed to progress_callback during the run
    args,              \* run_campaign arguments other than company_data
    runs               \* number of run_campaign calls made so far

vars == <<environ, df, validation, session_state, campaign_results, credentials, service,
          pc, company_data, pos, cur, sleeps, sends, reported, args, runs>>

-----------------------------------------------------------------------------
(* Bounds *)

MaxRows == 2          \* rows of a DataFrame handed to the validator
MaxRecipients == 2    \* rows of a DataFrame handed to run_campaign
MaxRuns == 2          \* run_campaign calls on one EmailSender
MaxResets == 1        \* presses of "Reset to AI" between two changes of mode

-----------------------------------------------------------------------------
(* Cells and text *)

Str(t) == [kind |-> "str", v |-> t]
Num(t) == [kind |-> "num", v |-> t]
NaN == [kind |-> "nan", v |-> <<>>]

IsStr(c) == c.kind = "str"
IsNaN(c) == c.kind = "nan"

Letters == {"a", "c", "e", "i", "j", "l", "m", "n", "o", "t"}
Digits == {"7"}
LocalChars == Letters \cup Digits \cup {".", "_", "%", "+", "-"}
DomainChars == Letters \cup Digits \cup {".", "-"}

\* r'^[a-zA-Z0-9._%+-]+@[a-zA-Z0-9.-]+\.[a-zA-Z]{2,}$' applied with str.match
EmailPatternMatches(t) ==
    \E at \in 2..Len(t) :
      \E dot \in (at + 2)..Len(t) :
        /\ t[at] = "@"
        /\ t[dot] = "."
        /\ \A i \in 1..(at - 1) : t[i] \in LocalChars
        /\ \A i \in (at + 1)..(dot - 1) : t[i] \in DomainChars
        /\ Len(t) - dot >= 2
        /\ \A i \in (dot + 1)..Len(t) : t[i] \in Letters

JaneAtAcme == <<"j", "@", "a", ".", "i", "o">>
JoeAtMetal == <<"j", "o", "e", "@", "m", "e", "t", "a", "l", ".", "c", "o", "m">>
NotAnEmail == <<"n", "o", "t", "-", "a", "n", "-", "e", "m", "a", "i", "l">>
ShortTld == <<"j", "@", "a", ".", "i">>

-----------------------------------------------------------------------------
(* DataFrames *)

required_columns == <<"Company Name", "Recruiter", "Email">>

RequiredSet == {required_columns[i] : i \in 1..Len(required_columns)}

\* the default RangeIndex of pd.read_csv / pd.read_excel: labels 0..N-1
RangeIndex(n) == [i \in 1..n |-> i - 1]

\* the cell values a column is drawn from when the validator is exercised
ValidatorCells ==
    [c \in RequiredSet |->
        CASE c = "Company Name" -> {NaN, Str(<<"Acme">>), Num(<<"7">>)}
          [] c = "Recruiter" -> {NaN, Str(<<"Jane">>)}
          [] OTHER -> {NaN, Str(JaneAtAcme), Str(NotAnEmail), Str(ShortTld), Num(<<"7">>)}]

\* the cell values of the files uploaded to the page and of the campaigns run
UploadCells ==
    [c \in RequiredSet |->
        CASE c = "Company Name" -> {Str(<<"Acme">>)}
          [] c = "Recruiter" -> {Str(<<"Jane">>)}
          [] OTHER -> {Str(JaneAtAcme), Str(NotAnEmail)}]

CampaignCells ==
    [c \in RequiredSet |->
        CASE c = "Company Name" -> {Str(<<"Acme">>), Num(<<"7">>)}
          [] c = "Recruiter" -> {Str(<<"Jane">>)}
          [] OTHER -> {Str(JaneAtAcme), Str(JoeAtMetal)}]

RowsOver(cols, cells) ==
    {r \in [cols -> UNION {cells[c] : c \in RequiredSet}] : \A c \in cols : r[c] \in cells[c]}

SeqsUpTo(S, n) == UNION {[1..k -> S] : k \in 0..n}

Frame(cols, rows) == [columns |-> cols, index |-> RangeIndex(Len(rows)), rows |-> rows]

FramesOver(cols, cells, n) == {Frame(cols, rows) : rows \in SeqsUpTo(RowsOver(cols, cells), n)}

\* every DataFrame handed to the validator: any subset of the required
\* columns, up to MaxRows rows
UploadedFrames == UNION {FramesOver(cols, ValidatorCells, MaxRows) : cols \in SUBSET RequiredSet}

len(frame) == Len(frame.rows)

-----------------------------------------------------------------------------
(* EmailSender.validate_company_data *)

\* f"Missing required columns: {', '.join(missing_columns)}"
MissingColumnsError(missing) == [kind |-> "Missing required columns", columns |-> missing, rows |-> 0]
\* f"Column '{col}' contains empty values"
EmptyValuesError(col) == [kind |-> "contains empty values", columns |-> <<col>>, rows |-> 0]
\* f"Invalid email addresses found: {len(invalid_emails)} rows"
InvalidEmailsError(n) == [kind |-> "Invalid email addresses found", columns |-> <<>>, rows |-> n]

missing_columns(frame) == SelectSeq(required_columns, LAMBDA col : col \notin frame.columns)

\* df[col].isna().any()
AnyNa(frame, col) == \E i \in 1..len(frame) : IsNaN(frame.rows[i][col])

ColumnsWithEmptyValues(frame) ==
    SelectSeq(required_columns, LAMBDA col : col \in frame.columns /\ AnyNa(frame, col))

\* df['Email'].str: pandas offers the .str accessor on a column of object
\* dtype only; a non-empty column holding no text at all (numbers, NaN) is
\* numeric and the accessor raises AttributeError
StrAccessorRaises(frame, col) ==
    /\ len(frame) > 0
    /\ \A i \in 1..len(frame) : ~IsStr(frame.rows[i][col])

\* the mask with missing cells left out of it
NotMatchedSkipsNa(cell) == cell.kind = "str" /\ ~EmailPatternMatches(cell.v)

\* ~df['Email'].str.match(email_pattern, na=False) on one cell
NotMatched(cell) == ~(IsStr(cell) /\ EmailPatternMatches(cell.v))

\* the mask without its negation: the rows that do match
invalid_emails_unnegated(frame) == {i \in 1..len(frame) : ~NotMatched(frame.rows[i]["Email"])}

invalid_emails(frame) == {i \in 1..len(frame) : NotMatched(frame.rows[i]["Email"])}

Returned(errors) == [outcome |-> "returned", is_valid |-> (Len(errors) = 0), errors |-> errors]
Raised == [outcome |-> "raised", is_valid |-> FALSE, errors |-> <<>>]
NotValidated == [outcome |-> "none", is_valid |-> FALSE, errors |-> <<>>]

validate_company_data(frame) ==
    LET missing == missing_columns(frame)
        e1 == IF Len(missing) > 0 THEN <<MissingColumnsError(missing)>> ELSE <<>>
        offending == ColumnsWithEmptyValues(frame)
        e2 == e1 \o [i \in 1..Len(offending) |-> EmptyValuesError(offending[i])]
    IN  IF "Email" \in frame.columns
        THEN IF StrAccessorRaises(frame, "Email")
             THEN Raised
             ELSE LET n == Cardinality(invalid_emails(frame))
                  IN  Returned(IF n > 0 THEN e2 \o <<InvalidEmailsError(n)>> ELSE e2)
        ELSE Returned(e2)

-----------------------------------------------------------------------------
(* Text substitution: str.replace over a text of atoms *)

RECURSIVE Replace(_, _, _)
Replace(text, token, value) ==
    IF text = <<>> THEN <<>>
    ELSE (IF Head(text) = token THEN value ELSE <<Head(text)>>)
         \o Replace(Tail(text), token, value)

\* the replace calls of subs, a sequence of <<token, value>> pairs, one after
\* the other, each on the text the one before produced (the singleton set
\* binds that text to its value)
RECURSIVE ReplaceEach(_, _)
ReplaceEach(text, subs) ==
    IF subs = <<>> THEN text
    ELSE CHOOSE out \in {ReplaceEach(t, Tail(subs)) :
                           t \in {Replace(text, Head(subs)[1], Head(subs)[2])}} : TRUE

\* a composed text, or the TypeError str.replace raises for a non-str argument
Text(t) == [raised |-> FALSE, text |-> t]
TypeError == [raised |-> TRUE, text |-> <<"TypeError">>]

\* the body with [Company Name] and [Recruiter Name] replaced only
ReplaceBodyTwoTokens(text, company_name, recruiter_name) ==
    IF company_name.kind # "str" \/ recruiter_name.kind # "str"
    THEN [raised |-> TRUE, text |-> <<"TypeError">>]
    ELSE [raised |-> FALSE,
          text |-> ReplaceEach(text, << <<"[Company Name]", company_name.v>>,
                                        <<"[Recruiter Name]", recruiter_name.v>> >>)]

\* the four replace calls of the body (email_sender.py 234-237, 253-256)
ReplaceBodyPlaceholders(text, company_name, recruiter_name) ==
    IF ~IsStr(company_name) \/ ~IsStr(recruiter_name) THEN TypeError
    ELSE Text(ReplaceEach(text, << <<"[Company Name]", company_name.v>>,
                                   <<"[Recruiter Name]", recruiter_name.v>>,
                                   <<"[COMPANY]", company_name.v>>,
                                   <<"[RECRUITER]", recruiter_name.v>> >>))

\* the two replace calls of the subject (email_sender.py 263-264, 267-268)
ReplaceSubjectPlaceholders(text, company_name, recruiter_name) ==
    IF ~IsStr(company_name) \/ ~IsStr(recruiter_name) THEN TypeError
    ELSE Text(ReplaceEach(text, << <<"[Company Name]", company_name.v>>,
                                   <<"[Recruiter Name]", recruiter_name.v>> >>))

-----------------------------------------------------------------------------
(* GeminiAI *)

\* what the generation backend does on one call: the client was never set up,
\* generate_content raises, the response has no text, the text is blank, or
\* the text is a written e-mail
GeminiOutcomes == {"no model", "raises", "empty", "blank", "text"}

GeneratedText == <<"Dear Jane, I admire Acme.">>

_get_fallback_content(company_name, recruiter_name, base_template) ==
    IF ~IsStr(company_name) \/ ~IsStr(recruiter_name) THEN TypeError
    ELSE Text(ReplaceEach(base_template, << <<"[Company Name]", company_name.v>>,
                                            <<"[Recruiter Name]", recruiter_name.v>>,
                                            <<"[COMPANY]", company_name.v>>,
                                            <<"[RECRUITER]", recruiter_name.v>>,
                                            <<"\n\n\n", <<"\n\n">> >> >>))

personalize_email(company_name, recruiter_name, base_template, gemini) ==
    CASE gemini = "text" -> Text(GeneratedText)
      [] gemini = "blank" -> Text(<<>>)          \* response.text.strip() of blank text
      [] OTHER -> _get_fallback_content(company_name, recruiter_name, base_template)

-----------------------------------------------------------------------------
(* st.session_state: a key is absent (<<>>) or holds one value (<<v>>) *)

Absent == <<>>
Has(key) == session_state[key] # Absent
Get(key) == session_state[key][1]

AIMode == "AI-Powered Personalization"
ManualMode == "Manual Template"

\* the defaults of the template widgets (app.py 170-181, 215)
DefaultTemplate == <<"Dear", "[Recruiter Name]", "at", "[Company Name]", "\n\n\n", "[Your Name]">>
DefaultSubject == <<"Interest in Opportunities at", "[Company Name]">>
EditedBody == <<"Hello", "[RECRUITER]", "of", "[COMPANY]">>
EditedSubject == <<"Hello", "[Recruiter Name]">>

-----------------------------------------------------------------------------
(* Message composition inside run_campaign (email_sender.py 225-268) *)

\* the body composed with the saved override never looked at
personalized_body_ignores_override(row, gemini) ==
    IF session_state["personalization_mode"][1] = "AI-Powered Personalization"
    THEN personalize_email(row["Company Name"], row["Recruiter"], args.email_template, gemini)
    ELSE ReplaceBodyPlaceholders(args.email_template, row["Company Name"], row["Recruiter"])

personalized_body(row, gemini) ==
    LET company_name == row["Company Name"]
        recruiter_name == row["Recruiter"]
    IN  IF Get("personalization_mode") = AIMode
        THEN IF Has("preview_email_content")
             THEN ReplaceBodyPlaceholders(Get("preview_email_content"), company_name, recruiter_name)
             ELSE personalize_email(company_name, recruiter_name, args.email_template, gemini)
        ELSE ReplaceBodyPlaceholders(args.email_template, company_name, recruiter_name)

personalized_subject(row) ==
    LET company_name == row["Company Name"]
        recruiter_name == row["Recruiter"]
    IN  IF Has("preview_email_subject")
        THEN ReplaceSubjectPlaceholders(Get("preview_email_subject"), company_name, recruiter_name)
        ELSE ReplaceSubjectPlaceholders(args.subject_template, company_name, recruiter_name)

\* the branch of 226-256 that composes the body: a saved override in AI
\* mode, generation in AI mode, the template in manual mode
strategy ==
    IF Get("personalization_mode") = AIMode
    THEN (IF Has("preview_email_content") THEN "override" ELSE "generated")
    ELSE "manual"

\* the GeminiAI methods run_campaign invokes while composing one body
\* (email_sender.py 228-250): none with a saved override or in manual mode
gemini_calls ==
    IF Get("personalization_mode") = AIMode /\ ~Has("preview_email_content")
    THEN (IF Has("resume_file") THEN <<"extract_resume_content">> ELSE <<>>)
         \o <<"personalize_email">>
    ELSE <<>>

\* progress_bar.progress((index + 1) / total_emails): st.progress accepts a
\* float in [0.0, 1.0] only and raises otherwise
ProgressRaises(index, total_emails) == index + 1 < 0 \/ index + 1 > total_emails

-----------------------------------------------------------------------------
(* GmailAuthenticator *)

\* the token state of a Credentials object; "none" is Python None
CredentialStates == {"valid", "expired"}

\* what a session entry gmail_credentials can hold besides a usable token:
\* a token that has expired and carries no refresh token, and text that is
\* not JSON
SessionCredentialStates == CredentialStates \cup {"unrefreshable", "malformed"}

\* get_credentials_from_env (gmail_auth.py 30-37) raises ValueError without
\* the client id or the client secret
ClientConfigured == {"GOOGLE_CLIENT_ID", "GOOGLE_CLIENT_SECRET"} \subseteq environ

\* authenticate (gmail_auth.py 56-135): the credentials of the session are
\* loaded when present (60-69), unreadable ones are deleted (70-74); in the
\* not-valid branch (77-126) expired credentials holding a refresh token are
\* refreshed (78-83), without credentials the client configuration is read
\* and the authorisation link shown (85-123, return False), and whatever
\* credentials are left are written to the session (126); every path that
\* does not return at 123 returns True (128); an exception removes the
\* session entry and returns False (130-135)
authenticate(creds, refresh_ok) ==
    LET in_session == Has("gmail_credentials")
        malformed == in_session /\ Get("gmail_credentials") = "malformed"
        loaded == IF malformed THEN "none"
                  ELSE IF in_session THEN Get("gmail_credentials") ELSE creds
        after_load == IF malformed THEN Absent ELSE session_state.gmail_credentials
        refreshed == IF loaded = "expired" THEN (IF refresh_ok THEN "valid" ELSE "none")
                     ELSE loaded
    IN  IF loaded = "valid"
        THEN [ret |-> TRUE, error |-> FALSE, credentials |-> "valid", stored |-> after_load]
        ELSE IF refreshed = "none"
        THEN IF ClientConfigured
             THEN [ret |-> FALSE, error |-> FALSE, credentials |-> "none", stored |-> after_load]
             ELSE [ret |-> FALSE, error |-> TRUE, credentials |-> "none", stored |-> Absent]
        ELSE [ret |-> TRUE, error |-> FALSE, credentials |-> refreshed, stored |-> <<refreshed>>]

\* get_service rebuilding the service on every call
get_service_rebuilds(creds, svc, refresh_ok, build_ok) ==
    LET called == creds = "none"
        auth == IF called THEN authenticate(creds, refresh_ok)
                ELSE [ret |-> TRUE, error |-> FALSE, credentials |-> creds,
                      stored |-> session_state.gmail_credentials]
        outcome == IF ~called THEN "not called" ELSE IF auth.error THEN "error"
                   ELSE IF auth.ret THEN "True" ELSE "False"
    IN  IF ~auth.ret
        THEN [service |-> FALSE, built |-> svc, build |-> FALSE, auth |-> outcome,
              credentials |-> auth.credentials, stored |-> auth.stored]
        ELSE [service |-> build_ok, built |-> build_ok, build |-> TRUE, auth |-> outcome,
              credentials |-> auth.credentials, stored |-> auth.stored]

\* get_service (gmail_auth.py 137-149): authenticate is called only while
\* the authenticator holds no credentials (140-142), build only while it
\* holds no service (144-145); auth is what authenticate returned, build
\* whether build was called
get_service(creds, svc, refresh_ok, build_ok) ==
    LET called == creds = "none"
        auth == IF called THEN authenticate(creds, refresh_ok)
                ELSE [ret |-> TRUE, error |-> FALSE, credentials |-> creds,
                      stored |-> session_state.gmail_credentials]
        outcome == IF ~called THEN "not called" ELSE IF auth.error THEN "error"
                   ELSE IF auth.ret THEN "True" ELSE "False"
    IN  IF ~auth.ret
        THEN [service |-> FALSE, built |-> svc, build |-> FALSE, auth |-> outcome,
              credentials |-> auth.credentials, stored |-> auth.stored]
        ELSE IF svc \/ build_ok
        THEN [service |-> TRUE, built |-> TRUE, build |-> ~svc, auth |-> outcome,
              credentials |-> auth.credentials, stored |-> auth.stored]
        ELSE [service |-> FALSE, built |-> FALSE, build |-> TRUE, auth |-> outcome,
              credentials |-> auth.credentials, stored |-> auth.stored]

-----------------------------------------------------------------------------
(* EmailSender.send_email (email_sender.py 154-186) *)

ServiceNotAvailable == <<"Gmail service not available">>
SentSuccessfully == <<"Email sent successfully (ID: ", "id", ")">>
FailedToSend(e) == <<"Failed to send email: ", e>>
CampaignError(e) == <<"Campaign error: ", e>>

\* what the transport did on one call: no service could be obtained, the
\* Gmail call raised, or the message went out
TransportOutcome(got, api_ok) ==
    IF ~got.service THEN "unavailable" ELSE IF api_ok THEN "sent" ELSE "raised"

\* users().messages().send(...).execute() (email_sender.py 176-180) can
\* succeed only with credentials Google accepts
Accepted(got, api_ok) == api_ok /\ got.credentials = "valid"

\* send_email with the except branch reporting the send as done
send_email_hides_failure(got, api_ok) ==
    IF ~got.service THEN [success |-> FALSE, message |-> <<"Gmail service not available">>]
    ELSE IF api_ok THEN [success |-> TRUE, message |-> <<"Email sent successfully (ID: ", "id", ")">>]
    ELSE [success |-> TRUE, message |-> <<"Failed to send email: ", "HttpError">>]

\* send_email without the test of the service: the call on None raises
\* inside the try block
send_email_unchecked_service(got, api_ok) ==
    IF ~got.service THEN [success |-> FALSE, message |-> <<"Failed to send email: ", "AttributeError">>]
    ELSE IF api_ok THEN [success |-> TRUE, message |-> <<"Email sent successfully (ID: ", "id", ")">>]
    ELSE [success |-> FALSE, message |-> <<"Failed to send email: ", "HttpError">>]

send_email(got, api_ok) ==
    IF ~got.service THEN [success |-> FALSE, message |-> ServiceNotAvailable]
    ELSE IF api_ok THEN [success |-> TRUE, message |-> SentSuccessfully]
    ELSE [success |-> FALSE, message |-> FailedToSend("HttpError")]

-----------------------------------------------------------------------------
(* EmailSender.run_campaign (email_sender.py 188-312), one action per step *)

NoLocals == [subject |-> <<>>, body |-> <<>>, success |-> FALSE, message |-> <<>>,
             calls |-> <<>>, gemini |-> "not called", strategy |-> "none"]
NoArgs == [email_template |-> <<>>, subject_template |-> <<>>, progress_callback |-> FALSE]

total_emails == len(company_data)
row == company_data.rows[pos]
index == company_data.index[pos]

\* the result of a send (276-284)
result ==
    [company |-> row["Company Name"], recruiter |-> row["Recruiter"], email |-> row["Email"],
     subject |-> cur.subject, success |-> cur.success, message |-> cur.message]

\* the result of the except branch (297-305)
error_result(e) ==
    [company |-> row["Company Name"], recruiter |-> row["Recruiter"], email |-> row["Email"],
     subject |-> <<"Error">>, success |-> FALSE, message |-> CampaignError(e)]

\* the log with the new result put in front
LogAtFront(r) == <<r>> \o campaign_results

\* self.campaign_results.append(...) (285, 306)
Log(r) == Append(campaign_results, r)

\* the except branch dropping the failure instead of recording it
ExceptBranchDropsResult(e) ==
    /\ campaign_results' = campaign_results
    /\ pos' = pos + 1
    /\ UNCHANGED <<pc, cur>>

\* 295-306: the except branch records an error result; the loop goes on
\* with the next row
ExceptBranch(e) ==
    /\ campaign_results' = Log(error_result(e))
    /\ pos' = pos + 1
    /\ UNCHANGED <<pc, cur>>

\* run_campaign without the reset of the log
BeginRunKeepsLog(frame, a) ==
    /\ campaign_results' = campaign_results
    /\ company_data' = frame
    /\ args' = a
    /\ pos' = 1
    /\ cur' = [subject |-> <<>>, body |-> <<>>, success |-> FALSE, message |-> <<>>,
             calls |-> <<>>, gemini |-> "not called", strategy |-> "none"]
    /\ sleeps' = <<>>
    /\ sends' = <<>>
    /\ reported' = <<>>
    /\ runs' = runs + 1
    /\ pc' = "iter"

\* 204-211: the log is reset and the loop entered
BeginRun(frame, a) ==
    /\ campaign_results' = <<>>
    /\ company_data' = frame
    /\ args' = a
    /\ pos' = 1
    /\ cur' = NoLocals
    /\ sleeps' = <<>>
    /\ sends' = <<>>
    /\ reported' = <<>>
    /\ runs' = runs + 1
    /\ pc' = "iter"

\* 213-268: the next row is taken and its subject and body composed; an
\* exception goes to the except branch (295-306), which records an error
\* result and moves on to the next row
Compose ==
    /\ pc = "iter"
    /\ pos <= total_emails
    /\ \E gemini \in GeminiOutcomes :
         LET body == personalized_body(row, gemini)
             subject == personalized_subject(row)
         IN  IF ProgressRaises(index, total_emails)
             THEN ExceptBranch("StreamlitAPIException")
             ELSE IF body.raised \/ subject.raised
             THEN ExceptBranch("TypeError")
             ELSE /\ cur' = [cur EXCEPT !.subject = subject.text, !.body = body.text,
                                         !.calls = gemini_calls,
                                         !.strategy = strategy,
                                         !.gemini = IF gemini_calls = <<>> THEN "not called"
                                                    ELSE gemini]
                  /\ pc' = "send"
                  /\ UNCHANGED <<campaign_results, pos>>
    /\ UNCHANGED <<environ, df, validation, session_state, credentials, service, company_data,
                   sleeps, sends, reported, args, runs>>

\* 270-273: send_email; it obtains the service, calls the Gmail API and turns
\* every exception into a (False, message) return
Send ==
    /\ pc = "send"
    /\ \E refresh_ok \in BOOLEAN, build_ok \in BOOLEAN, api_ok \in BOOLEAN :
         LET got == get_service(credentials, service, refresh_ok, build_ok)
             accepted == Accepted(got, api_ok)
             sent == send_email(got, accepted)
         IN  /\ credentials' = got.credentials
             /\ service' = got.built
             /\ session_state' = [session_state EXCEPT !.gmail_credentials = got.stored]
             /\ cur' = [cur EXCEPT !.success = sent.success, !.message = sent.message]
             /\ sends' = Append(sends, [pos |-> pos, outcome |-> TransportOutcome(got, accepted),
                                      auth |-> got.auth, build |-> got.build,
                                      strategy |-> cur.strategy])
    /\ pc' = "record"
    /\ UNCHANGED <<environ, df, validation, campaign_results, company_data, pos, sleeps,
                   reported, args, runs>>

\* the loop left at the first failed send
RecordStopsAtFailure ==
    /\ pc = "record"
    /\ campaign_results' = Append(campaign_results,
            [company |-> company_data.rows[pos]["Company Name"],
             recruiter |-> company_data.rows[pos]["Recruiter"],
             email |-> company_data.rows[pos]["Email"],
             subject |-> cur.subject, success |-> cur.success, message |-> cur.message])
    /\ pc' = IF cur.success THEN "callback" ELSE "done"
    /\ UNCHANGED <<environ, df, validation, session_state, credentials, service, company_data,
                   pos, cur, sleeps, sends, reported, args, runs>>

\* a failed send tried a second time before its result is recorded
RecordRetriesOnce ==
    /\ pc = "record"
    /\ IF ~cur.success /\ Cardinality({i \in 1..Len(sends) : sends[i].pos = pos}) < 2
       THEN pc' = "send" /\ UNCHANGED campaign_results
       ELSE /\ campaign_results' = Append(campaign_results,
                    [company |-> company_data.rows[pos]["Company Name"],
                     recruiter |-> company_data.rows[pos]["Recruiter"],
                     email |-> company_data.rows[pos]["Email"],
                     subject |-> cur.subject, success |-> cur.success,
                     message |-> cur.message])
            /\ pc' = "callback"
    /\ UNCHANGED <<environ, df, validation, session_state, credentials, service, company_data,
                   pos, cur, sleeps, sends, reported, args, runs>>

\* 275-285: the result is appended to the log
Record ==
    /\ pc = "record"
    /\ campaign_results' = Log(result)
    /\ pc' = "callback"
    /\ UNCHANGED <<environ, df, validation, session_state, credentials, service, company_data,
                   pos, cur, sleeps, sends, reported, args, runs>>

\* update_progress (app.py 457-469): the result joins the list kept in the
\* session, and the last five are displayed
update_progress(r) ==
    LET shown == IF Has("campaign_results") THEN Get("campaign_results") ELSE <<>>
    IN  [session_state EXCEPT !.campaign_results = <<Append(shown, r)>>]

\* 287-289: the progress callback, when one was given
Callback ==
    /\ pc = "callback"
    /\ session_state' = IF args.progress_callback THEN update_progress(result) ELSE session_state
    /\ reported' = IF args.progress_callback THEN Append(reported, result) ELSE reported
    /\ pc' = "delay"
    /\ UNCHANGED <<environ, df, validation, campaign_results, credentials, service,
                   company_data, pos, cur, sleeps, sends, args, runs>>

\* 287-306 with a callback that raises: the exception is caught by the
\* except branch of the iteration, whose result was appended at 285 already
CallbackRaises ==
    /\ pc = "callback"
    /\ args.progress_callback
    /\ reported' = Append(reported, result)
    /\ campaign_results' = Log(error_result("CallbackError"))
    /\ pos' = pos + 1
    /\ cur' = NoLocals
    /\ pc' = "iter"
    /\ UNCHANGED <<environ, df, validation, session_state, credentials, service,
                   company_data, sleeps, sends, args, runs>>

\* the pause made after the last row as well
DelayAlsoAfterLast ==
    /\ pc = "delay"
    /\ sleeps' = IF company_data.index[pos] < Len(company_data.rows) THEN Append(sleeps, pos) ELSE sleeps
    /\ pos' = pos + 1
    /\ cur' = [subject |-> <<>>, body |-> <<>>, success |-> FALSE, message |-> <<>>,
             calls |-> <<>>, gemini |-> "not called", strategy |-> "none"]
    /\ pc' = "iter"
    /\ UNCHANGED <<environ, df, validation, session_state, campaign_results, credentials, service,
                   company_data, sends, reported, args, runs>>

\* 291-293: the pause before the next row, then the loop goes on
Delay ==
    /\ pc = "delay"
    /\ sleeps' = IF index < total_emails - 1 THEN Append(sleeps, pos) ELSE sleeps
    /\ pos' = pos + 1
    /\ cur' = NoLocals
    /\ pc' = "iter"
    /\ UNCHANGED <<environ, df, validation, session_state, campaign_results, credentials, service,
                   company_data, sends, reported, args, runs>>

\* 308-312: the rows are exhausted and the log is returned
Return ==
    /\ pc = "iter"
    /\ pos > total_emails
    /\ pc' = "done"
    /\ UNCHANGED <<environ, df, validation, session_state, campaign_results, credentials, service,
                   company_data, pos, cur, sleeps, sends, reported, args, runs>>

\* the summary with every result counted as failed
get_campaign_summary_all_failed ==
    [total |-> Len(campaign_results), successful |-> 0, failed |-> Len(campaign_results)]

\* get_campaign_summary (314-327)
get_campaign_summary ==
    IF campaign_results = <<>>
    THEN [total |-> 0, successful |-> 0, failed |-> 0]
    ELSE LET total == Len(campaign_results)
             successful == Cardinality({i \in 1..total : campaign_results[i].success})
         IN  [total |-> total, successful |-> successful, failed |-> total - successful]

RunStep == Compose \/ Send \/ Record \/ Callback \/ Delay \/ Return

-----------------------------------------------------------------------------
(* The validator on its own: every DataFrame of UploadedFrames is validated *)

EmptyFrame == Frame(RequiredSet, <<>>)

\* app.py 18-27
required_vars == <<"GOOGLE_CLIENT_ID", "GOOGLE_CLIENT_SECRET", "GEMINI_API_KEY">>

check_environment ==
    LET missing_vars == SelectSeq(required_vars, LAMBDA var : var \notin environ)
    IN  <<Len(missing_vars) = 0, missing_vars>>

\* st.session_state once the page has been rendered: the mode radio
\* (app.py 148-164), the template widgets (210, 219) and the resume uploader
\* (132-136, its key holds None) have written their keys
RenderedSession ==
    [gmail_credentials |-> Absent, company_data |-> Absent,
     personalization_mode |-> <<AIMode>>,
     email_template |-> <<DefaultTemplate>>, subject_template |-> <<DefaultSubject>>,
     resume_file |-> <<"None">>,
     preview_content |-> Absent, preview_subject |-> Absent, preview_company |-> Absent,
     preview_recruiter |-> Absent, preview_email |-> Absent,
     preview_resume_summary |-> Absent, preview_company_data |-> Absent,
     preview_mode |-> Absent,
     preview_email_content |-> Absent, preview_email_subject |-> Absent,
     reset_counter |-> Absent,
     campaign_results |-> Absent, campaign_results_data |-> Absent]

SenderConstructed ==
    /\ campaign_results = <<>>
    /\ credentials = "none"
    /\ service = FALSE
    /\ pc = "idle"
    /\ company_data = EmptyFrame
    /\ pos = 1
    /\ cur = NoLocals
    /\ sleeps = <<>>
    /\ sends = <<>>
    /\ reported = <<>>
    /\ args = NoArgs
    /\ runs = 0

InitValidate ==
    /\ df \in UploadedFrames
    /\ validation = NotValidated
    /\ session_state = RenderedSession
    /\ environ = {}
    /\ SenderConstructed

Validate ==
    /\ validation.outcome = "none"
    /\ validation' = validate_company_data(df)
    /\ UNCHANGED <<environ, df, session_state, campaign_results, credentials, service, pc,
                   company_data, pos, cur, sleeps, sends, reported, args, runs>>

NextValidate == Validate

SpecValidate == InitValidate /\ [][NextValidate]_vars

-----------------------------------------------------------------------------
(* One EmailSender, run_campaign called on it again and again *)

\* the DataFrames a campaign is run on: those the validator lets through
CampaignFrames ==
    {f \in FramesOver(RequiredSet, CampaignCells, MaxRecipients) :
       validate_company_data(f).is_valid}

\* the session a run can find: an override is saved in AI mode only
AmbientSessions ==
    {s \in {[RenderedSession EXCEPT !.gmail_credentials = g, !.personalization_mode = <<m>>,
                                    !.preview_email_content = o[1],
                                    !.preview_email_subject = o[2]] :
        g \in {Absent} \cup {<<c>> : c \in CredentialStates},
        m \in {AIMode, ManualMode},
        o \in {<<Absent, Absent>>, <<(<<EditedBody>>), (<<EditedSubject>>)>>}} :
        s.personalization_mode = <<ManualMode>> => s.preview_email_content = Absent}

RunArgs ==
    {[email_template |-> DefaultTemplate, subject_template |-> DefaultSubject,
      progress_callback |-> cb] : cb \in BOOLEAN}

Init ==
    /\ df = EmptyFrame
    /\ validation = NotValidated
    /\ session_state \in AmbientSessions
    /\ environ = {}
    /\ SenderConstructed

RunCampaign ==
    /\ pc \in {"idle", "done"}
    /\ runs < MaxRuns
    /\ \E frame \in CampaignFrames, a \in RunArgs : BeginRun(frame, a)
    /\ UNCHANGED <<environ, df, validation, session_state, credentials, service>>

Next == RunCampaign \/ Compose \/ Send \/ Record \/ Callback \/ Delay \/ Return

Spec == Init /\ [][Next]_vars

\* the loop is synchronous straight-line code: a started run keeps stepping
FairSpec == Spec /\ WF_vars(RunStep)

-----------------------------------------------------------------------------
(* The Streamlit page: uploads, Gmail connection, mode selection and the   *)
(* launch of a campaign through execute_campaign                            *)

\* the files a user uploads: complete ones and ones without the Email column
UploadChoices ==
    FramesOver(RequiredSet, UploadCells, MaxRecipients)
        \cup FramesOver(RequiredSet \ {"Email"}, UploadCells, MaxRecipients)

\* validate_company_data on each of the uploaded files
UploadValidation == [f \in UploadChoices |-> validate_company_data(f)]

InitApp ==
    /\ df = EmptyFrame
    /\ validation = NotValidated
    /\ session_state = RenderedSession
    /\ environ \in SUBSET {required_vars[i] : i \in 1..Len(required_vars)}
    /\ SenderConstructed

\* file_upload_section storing the DataFrame before it looks at the verdict
FileUploadStoresAnyway ==
    /\ pc = "idle"
    /\ \/ \E f \in UploadChoices :
            /\ df' = f
            /\ validation' = UploadValidation[f]
            /\ session_state' = [session_state EXCEPT !.company_data = <<f>>]
       \/ /\ validation' = Raised
          /\ UNCHANGED <<df, session_state>>
    /\ UNCHANGED <<environ, campaign_results, credentials, service, pc, company_data, pos,
                   cur, sleeps, sends, reported, args, runs>>

\* file_upload_section (app.py 101-128): the file is read and validated; only
\* a DataFrame that passes is stored (119-121); an exception of pd.read_csv,
\* pd.read_excel or the validator is reported as a read error (127-128)
FileUpload ==
    /\ pc = "idle"
    /\ \/ \E f \in UploadChoices :
            /\ df' = f
            /\ validation' = UploadValidation[f]
            /\ session_state' =
                 IF UploadValidation[f].is_valid
                 THEN [session_state EXCEPT !.company_data = <<f>>]
                 ELSE session_state
       \/ /\ validation' = Raised
          /\ UNCHANGED <<df, session_state>>
    /\ UNCHANGED <<environ, campaign_results, credentials, service, pc, company_data, pos,
                   cur, sleeps, sends, reported, args, runs>>

\* handle_oauth_callback (gmail_auth.py 197-238): the authorisation code is
\* exchanged and the fresh credentials are stored
OAuthCallback ==
    /\ pc = "idle"
    /\ session_state' = [session_state EXCEPT !.gmail_credentials = <<"valid">>]
    /\ UNCHANGED <<environ, df, validation, campaign_results, credentials, service, pc, company_data,
                   pos, cur, sleeps, sends, reported, args, runs>>

\* the access token of the stored credentials runs out (credentials.expired,
\* gmail_auth.py 77-78)
TokenExpires ==
    /\ pc = "idle"
    /\ session_state.gmail_credentials = <<"valid">>
    /\ session_state' = [session_state EXCEPT !.gmail_credentials = <<"expired">>]
    /\ UNCHANGED <<environ, df, validation, campaign_results, credentials, service, pc, company_data,
                   pos, cur, sleeps, sends, reported, args, runs>>

\* logout (gmail_auth.py 274-278)
Logout ==
    /\ pc = "idle"
    /\ Has("gmail_credentials")
    /\ session_state' = [session_state EXCEPT !.gmail_credentials = Absent]
    /\ UNCHANGED <<environ, df, validation, campaign_results, credentials, service, pc, company_data,
                   pos, cur, sleeps, sends, reported, args, runs>>

\* the keys deleted on a change of mode (app.py 157-159)
preview_keys ==
    {"preview_content", "preview_subject", "preview_company", "preview_recruiter",
     "preview_email", "preview_resume_summary", "preview_company_data", "preview_mode",
     "preview_email_content", "preview_email_subject", "reset_counter"}

\* the change of mode leaving the saved override in the session
SelectModeKeepsOverride ==
    /\ pc = "idle"
    /\ \E m \in {"AI-Powered Personalization", "Manual Template"} :
         /\ session_state["personalization_mode"][1] # m
         /\ session_state' =
              [k \in DOMAIN session_state |->
                 IF k = "personalization_mode" THEN <<m>>
                 ELSE IF k \in preview_keys \ {"preview_email_content", "preview_email_subject"}
                 THEN <<>>
                 ELSE session_state[k]]
    /\ UNCHANGED <<environ, df, validation, campaign_results, credentials, service, pc, company_data,
                   pos, cur, sleeps, sends, reported, args, runs>>

\* email_template_section (app.py 148-164): choosing the other mode deletes
\* every preview key, the saved override among them, and stores the mode
SelectMode ==
    /\ pc = "idle"
    /\ \E m \in {AIMode, ManualMode} :
         /\ Get("personalization_mode") # m
         /\ session_state' =
              [k \in DOMAIN session_state |->
                 IF k = "personalization_mode" THEN <<m>>
                 ELSE IF k \in preview_keys THEN Absent
                 ELSE session_state[k]]
    /\ UNCHANGED <<environ, df, validation, campaign_results, credentials, service, pc, company_data,
                   pos, cur, sleeps, sends, reported, args, runs>>

\* extract_resume_content (gemini_ai.py 214-244): the text of the PDF, or
\* the failure text when the file cannot be read (the uploader key holds
\* None until a file is chosen)
extract_resume_content(resume_file) ==
    IF resume_file = "None" THEN <<"Resume content extraction failed">>
    ELSE <<"resume text">>

\* the first row of the stored dataset (app.py 224)
sample_row == Get("company_data").rows[1]

\* "Preview Email" (app.py 222-276): with a stored dataset of at least one
\* row the preview of its first row is composed and stored, by GeminiAI in
\* AI mode (230-257) and by substitution in manual mode (259-274)
PreviewEmail ==
    /\ pc = "idle"
    /\ Has("company_data")
    /\ len(Get("company_data")) > 0
    /\ LET company_name == sample_row["Company Name"]
           recruiter_name == sample_row["Recruiter"]
           subject == ReplaceSubjectPlaceholders(Get("subject_template"),
                                                 company_name, recruiter_name)
       IN  IF Get("personalization_mode") = AIMode
           THEN \E gemini \in GeminiOutcomes :
                  LET resume_summary == IF Has("resume_file")
                                        THEN extract_resume_content(Get("resume_file"))
                                        ELSE <<>>
                      preview_content == personalize_email(company_name, recruiter_name,
                                                           Get("email_template"), gemini)
                  IN  IF preview_content.raised \/ subject.raised
                      THEN UNCHANGED session_state
                      ELSE session_state' =
                             [session_state EXCEPT
                                !.preview_content = <<preview_content.text>>,
                                !.preview_subject = <<subject.text>>,
                                !.preview_company = <<company_name>>,
                                !.preview_recruiter = <<recruiter_name>>,
                                !.preview_email = <<sample_row["Email"]>>,
                                !.preview_resume_summary = <<resume_summary>>,
                                !.preview_company_data = <<sample_row>>,
                                !.preview_mode = <<"ai">>]
           ELSE LET preview_content == ReplaceBodyPlaceholders(Get("email_template"),
                                                               company_name, recruiter_name)
                IN  IF preview_content.raised \/ subject.raised
                    THEN UNCHANGED session_state
                    ELSE session_state' =
                           [session_state EXCEPT
                              !.preview_content = <<preview_content.text>>,
                              !.preview_subject = <<subject.text>>,
                              !.preview_company = <<company_name>>,
                              !.preview_recruiter = <<recruiter_name>>,
                              !.preview_email = <<sample_row["Email"]>>,
                              !.preview_mode = <<"manual">>]
    /\ UNCHANGED <<environ, df, validation, campaign_results, credentials, service, pc, company_data,
                   pos, cur, sleeps, sends, reported, args, runs>>

\* the editable preview is shown for a stored preview of AI mode only
\* (app.py 279-282)
EditablePreviewShown ==
    /\ Has("preview_content")
    /\ (IF Has("preview_mode") THEN Get("preview_mode") ELSE "ai") = "ai"

\* the texts the two preview widgets start with (app.py 290-296): the saved
\* version when there is one, the preview otherwise
subject_value ==
    IF Has("preview_email_subject") THEN Get("preview_email_subject") ELSE Get("preview_subject")

body_value ==
    IF Has("preview_email_content") THEN Get("preview_email_content") ELSE Get("preview_content")

\* "Save This Version" storing the body only
SaveBodyOnly ==
    /\ pc = "idle"
    /\ session_state["preview_content"] # <<>>
    /\ session_state["preview_mode"] \in {<<>>, <<"ai">>}
    /\ \E edited_body \in {body_value, EditedBody} :
         session_state' = [session_state EXCEPT !.preview_email_content = <<edited_body>>]
    /\ UNCHANGED <<environ, df, validation, campaign_results, credentials, service, pc, company_data,
                   pos, cur, sleeps, sends, reported, args, runs>>

\* "Save This Version" (app.py 302-306): the texts of the two widgets, as
\* shown or as edited, become the saved override
SaveThisVersion ==
    /\ pc = "idle"
    /\ EditablePreviewShown
    /\ \E edited_body \in {body_value, EditedBody},
          edited_subject \in {subject_value, EditedSubject} :
         session_state' = [session_state EXCEPT !.preview_email_content = <<edited_body>>,
                                                !.preview_email_subject = <<edited_subject>>]
    /\ UNCHANGED <<environ, df, validation, campaign_results, credentials, service, pc, company_data,
                   pos, cur, sleeps, sends, reported, args, runs>>

\* "Reset to AI" (app.py 309-318): the saved override is deleted and the
\* reset counter incremented
ResetToAI ==
    /\ pc = "idle"
    /\ EditablePreviewShown
    /\ LET reset_counter == IF Has("reset_counter") THEN Get("reset_counter") ELSE 0
       IN  /\ reset_counter < MaxResets
           /\ session_state' = [session_state EXCEPT !.preview_email_content = Absent,
                                                      !.preview_email_subject = Absent,
                                                      !.reset_counter = <<reset_counter + 1>>]
    /\ UNCHANGED <<environ, df, validation, campaign_results, credentials, service, pc, company_data,
                   pos, cur, sleeps, sends, reported, args, runs>>

\* the prerequisites without the check of the environment
all_ready_session_only ==
    /\ Has("gmail_credentials")
    /\ Has("company_data")
    /\ Has("email_template")
    /\ Has("resume_file")

\* the prerequisites campaign_execution_section checks on the session
\* (app.py 362-369, 382)
all_ready ==
    /\ Has("gmail_credentials")
    /\ Has("company_data")
    /\ Has("email_template")
    /\ Has("resume_file")
    /\ check_environment[1]

\* campaign_execution_section and execute_campaign (app.py 382-441): with the
\* prerequisites met the button builds a new EmailSender and calls
\* run_campaign on the stored dataset
StartCampaign ==
    /\ pc = "idle"
    /\ all_ready
    /\ runs < MaxRuns
    /\ credentials' = "none"
    /\ service' = FALSE
    /\ BeginRun(Get("company_data"),
                [email_template |-> Get("email_template"),
                 subject_template |-> Get("subject_template"),
                 progress_callback |-> TRUE])
    /\ UNCHANGED <<environ, df, validation, session_state>>

\* execute_campaign after run_campaign returned (app.py 443-452): the summary
\* is shown, the script run ends and its locals, the EmailSender among them,
\* go out of scope
ShowResults ==
    /\ pc = "done"
    /\ pc' = "idle"
    /\ campaign_results' = <<>>
    /\ credentials' = "none"
    /\ service' = FALSE
    /\ company_data' = EmptyFrame
    /\ pos' = 1
    /\ cur' = NoLocals
    /\ sleeps' = <<>>
    /\ sends' = <<>>
    /\ reported' = <<>>
    /\ args' = NoArgs
    /\ session_state' = [session_state EXCEPT !.campaign_results_data = <<campaign_results>>]
    /\ UNCHANGED <<environ, df, validation, runs>>

NextApp ==
    \/ FileUpload \/ OAuthCallback \/ TokenExpires \/ Logout \/ SelectMode
    \/ StartCampaign \/ Compose \/ Send \/ Record \/ Callback \/ Delay \/ Return
    \/ ShowResults

SpecApp == InitApp /\ [][NextApp]_vars

-----------------------------------------------------------------------------
(* SpecPreview: the template section of the page (app.py 143-338) and the
   campaigns launched from it, in a session that is connected to Gmail, has
   its environment configured and has had its uploads *)

\* the datasets file_upload_section stores (app.py 119-121)
StoredDatasets == {f \in UploadChoices : UploadValidation[f].is_valid}

InitPreview ==
    /\ df = EmptyFrame
    /\ validation = NotValidated
    /\ \E stored \in {Absent} \cup {<<f>> : f \in StoredDatasets} :
         session_state = [RenderedSession EXCEPT !.gmail_credentials = <<"valid">>,
                                                 !.company_data = stored]
    /\ environ = {required_vars[i] : i \in 1..Len(required_vars)}
    /\ SenderConstructed

NextPreview ==
    \/ SelectMode \/ PreviewEmail \/ SaveThisVersion \/ ResetToAI
    \/ StartCampaign \/ Compose \/ Send \/ Record \/ Callback \/ Delay \/ Return
    \/ ShowResults

SpecPreview == InitPreview /\ [][NextPreview]_vars

-----------------------------------------------------------------------------
(* Composition on its own: one recipient, templates of every shape *)

MaxTemplateLen == 2   \* atoms of a body template
MaxSubjectLen == 1    \* atoms of a subject template

Tokens == {"[Company Name]", "[Recruiter Name]", "[COMPANY]", "[RECRUITER]"}

\* what a template is made of: plain text, the placeholders and a run of
\* three line breaks
TemplateAtoms == Tokens \cup {"Hi", "\n\n\n"}

BodyTemplates == SeqsUpTo(TemplateAtoms, MaxTemplateLen)
SubjectTemplates == SeqsUpTo(Tokens \cup {"Hi"}, MaxSubjectLen)

ComposeSessions == {s \in AmbientSessions : s.gmail_credentials = <<"valid">>}

InitCompose ==
    /\ df = EmptyFrame
    /\ validation = NotValidated
    /\ session_state \in ComposeSessions
    /\ environ = {}
    /\ SenderConstructed

RunTemplates ==
    /\ pc = "idle"
    /\ runs = 0
    /\ \E frame \in {f \in CampaignFrames : len(f) = 1},
          body \in BodyTemplates, subject \in SubjectTemplates :
         BeginRun(frame, [email_template |-> body, subject_template |-> subject,
                          progress_callback |-> FALSE])
    /\ UNCHANGED <<environ, df, validation, session_state, credentials, service>>

NextCompose == RunTemplates \/ Compose \/ Send \/ Record \/ Callback \/ Delay \/ Return

SpecCompose == InitCompose /\ [][NextCompose]_vars

-----------------------------------------------------------------------------
(* run_campaign called by any caller: a DataFrame that was reordered or    *)
(* filtered keeps its row labels, and the callback handed in may raise     *)

RECURSIVE Injective(_)
Injective(q) ==
    Len(q) <= 1 \/ ((\A i \in 2..Len(q) : q[i] # q[1]) /\ Injective(Tail(q)))

\* the row labels of a DataFrame of n rows taken out of a longer one
IndexLabels(n) == {q \in [1..n -> 0..MaxRecipients] : Injective(q)}

CallerFrames ==
    UNION {{[f EXCEPT !.index = labels] : labels \in IndexLabels(len(f))} : f \in CampaignFrames}

CallerSession ==
    [RenderedSession EXCEPT !.gmail_credentials = <<"valid">>,
                            !.personalization_mode = <<ManualMode>>]

\* the sessions a caller can hand to run_campaign: st.session_state is an
\* open dictionary, so the credentials entry, the mode and the saved
\* override are whatever the caller wrote
CallerSessions ==
    {[CallerSession EXCEPT !.gmail_credentials = c, !.personalization_mode = <<mode>>,
                           !.preview_email_content = o[1], !.preview_email_subject = o[2]] :
        c \in {Absent} \cup {<<s>> : s \in SessionCredentialStates},
        mode \in {AIMode, ManualMode},
        o \in {<<Absent, Absent>>, <<<<EditedBody>>, <<EditedSubject>>>>}}

InitCaller ==
    /\ df = EmptyFrame
    /\ validation = NotValidated
    /\ session_state \in CallerSessions
    /\ environ \in {{}, {"GOOGLE_CLIENT_ID", "GOOGLE_CLIENT_SECRET"}}
    /\ SenderConstructed

RunCampaignCaller ==
    /\ pc = "idle"
    /\ runs = 0
    /\ \E frame \in CallerFrames, a \in RunArgs : BeginRun(frame, a)
    /\ UNCHANGED <<environ, df, validation, session_state, credentials, service>>

\* 287-289 with a progress_callback that writes st.session_state, as the
\* mode radio of the page does (app.py 143-164): run_campaign reads the mode
\* and the override anew in every iteration (226, 230)
CallbackSwitchesMode ==
    /\ pc = "callback"
    /\ args.progress_callback
    /\ \E mode \in {AIMode, ManualMode} :
         /\ mode # Get("personalization_mode")
         /\ session_state' = [session_state EXCEPT !.personalization_mode = <<mode>>]
    /\ reported' = Append(reported, result)
    /\ pc' = "delay"
    /\ UNCHANGED <<environ, df, validation, campaign_results, credentials, service,
                   company_data, pos, cur, sleeps, sends, args, runs>>

NextCaller ==
    \/ RunCampaignCaller \/ Compose \/ Send \/ Record \/ Callback \/ CallbackRaises
    \/ CallbackSwitchesMode \/ Delay \/ Return

SpecCaller == InitCaller /\ [][NextCaller]_vars

-----------------------------------------------------------------------------
(* Properties of the validator, checked under SpecValidate *)

Validated == validation.outcome # "none"
MissingSet == RequiredSet \ df.columns
SeqToSet(q) == {q[i] : i \in 1..Len(q)}
ErrorsOfKind(k) == {i \in 1..Len(validation.errors) : validation.errors[i].kind = k}

\* C9: validate_company_data on a dataset missing any required column
\* returns ok = false with exactly one missing-columns error, and that error
\* names all the missing columns.
C9_MissingColumnsReported ==
    (Validated /\ MissingSet # {}) =>
        /\ validation.outcome = "returned"
        /\ ~validation.is_valid
        /\ Cardinality(ErrorsOfKind("Missing required columns")) = 1
        /\ \A i \in ErrorsOfKind("Missing required columns") :
             SeqToSet(validation.errors[i].columns) = MissingSet

\* the errors C10 expects, computed from the DataFrame: the missing columns,
\* then the present required columns holding an empty value in the order
\* Company Name, Recruiter, Email, then the invalid-email count
ExpectedKinds ==
    (IF MissingSet # {} THEN <<"Missing required columns">> ELSE <<>>)
    \o [i \in 1..Cardinality({c \in df.columns : \E j \in 1..len(df) : df.rows[j][c].kind = "nan"})
          |-> "contains empty values"]
    \o (IF "Email" \in df.columns
           /\ \E j \in 1..len(df) : ~(df.rows[j]["Email"].kind = "str"
                                      /\ EmailPatternMatches(df.rows[j]["Email"].v))
        THEN <<"Invalid email addresses found">> ELSE <<>>)

\* C10: validate_company_data does not short-circuit: it returns all the
\* applicable errors in the order missing columns, empty values per column
\* (Company Name, Recruiter, Email), invalid-email count, and ok is true
\* exactly when the error list is empty.
C10_AllErrorsInOrder ==
    Validated =>
        /\ validation.outcome = "returned"
        /\ validation.is_valid = (validation.errors = <<>>)
        /\ [i \in 1..Len(validation.errors) |-> validation.errors[i].kind] = ExpectedKinds
        /\ \A i \in ErrorsOfKind("contains empty values"), j \in ErrorsOfKind("contains empty values") :
             i < j =>
               \E a \in 1..3, b \in 1..3 :
                 /\ a < b
                 /\ validation.errors[i].columns = <<required_columns[a]>>
                 /\ validation.errors[j].columns = <<required_columns[b]>>

\* whenever the validator does return, what it returns is as expected
ReturnedErrorsAsExpected ==
    validation.outcome = "returned" => (C9_MissingColumnsReported /\ C10_AllErrorsInOrder)

WellFormed(cell) == IsStr(cell) /\ EmailPatternMatches(cell.v)

\* C11: for every dataset with the three required columns, no empty value
\* in them and only well-formed e-mail addresses, validate_company_data
\* returns (True, []).
C11_CleanDatasetIsValid ==
    (/\ Validated
     /\ df.columns = RequiredSet
     /\ \A i \in 1..len(df) :
          /\ \A c \in RequiredSet : ~IsNaN(df.rows[i][c])
          /\ WellFormed(df.rows[i]["Email"]))
    => (validation.outcome = "returned" /\ validation.is_valid /\ validation.errors = <<>>)

C11_Witness ==
    /\ Validated
    /\ df.columns = RequiredSet
    /\ len(df) = 2
    /\ \A i \in 1..len(df) : WellFormed(df.rows[i]["Email"]) /\ IsStr(df.rows[i]["Company Name"])
    /\ validation.is_valid

InvalidEmailErrors == ErrorsOfKind("Invalid email addresses found")

-----------------------------------------------------------------------------
(* Properties of run_campaign, checked under Spec and FairSpec *)

Rows == company_data.rows
Recipient(i) == <<Rows[i]["Company Name"], Rows[i]["Recruiter"], Rows[i]["Email"]>>
ResultFor(i) == <<campaign_results[i].company, campaign_results[i].recruiter,
                  campaign_results[i].email>>
Recipients == {Recipient(i) : i \in 1..total_emails}

\* C1: after run_campaign returns for a dataset of N recipients the log
\* holds exactly N results, one for each recipient, whatever mix of sent,
\* failed and raising recipients the run met.
C1_OneResultPerRecipient ==
    pc = "done" =>
        /\ Len(campaign_results) = total_emails
        /\ \A r \in Recipients :
             Cardinality({i \in 1..Len(campaign_results) : ResultFor(i) = r})
               = Cardinality({i \in 1..total_emails : Recipient(i) = r})

C1_Witness ==
    /\ pc = "done"
    /\ total_emails = 2
    /\ \E i, j \in 1..Len(campaign_results) :
         /\ campaign_results[i].message = CampaignError("TypeError")
         /\ campaign_results[j].message = FailedToSend("HttpError")

\* C2: when the transport fails for recipient k (no service, or the Gmail
\* call raises), the run still processes all N recipients, result k has
\* success = false with the error text as its message, and every other
\* result carries its own recipient's send outcome.
C2_FailureIsolation ==
    pc = "done" =>
        /\ pos = total_emails + 1
        /\ Len(campaign_results) = total_emails
        /\ \A k \in 1..Len(sends) :
             LET r == campaign_results[sends[k].pos]
             IN  /\ r.success = (sends[k].outcome = "sent")
                 /\ sends[k].outcome = "raised" => r.message = <<"Failed to send email: ", "HttpError">>
                 /\ sends[k].outcome = "unavailable" => r.message = <<"Gmail service not available">>
                 /\ sends[k].outcome = "sent" => r.message = SentSuccessfully

C2_Witness ==
    /\ pc = "done"
    /\ Len(sends) = 2
    /\ sends[1].outcome = "raised"
    /\ sends[2].outcome = "sent"
    /\ campaign_results[2].success

\* C3: at every point of a run and after it, the result at index i belongs
\* to the recipient at position i of the dataset, and the log only ever
\* grows at its end.
C3_LogFollowsDatasetOrder ==
    /\ Len(campaign_results) <= total_emails
    /\ \A i \in 1..Len(campaign_results) : ResultFor(i) = Recipient(i)

C3_Witness ==
    /\ pc = "delay"
    /\ Len(campaign_results) = 2
    /\ Recipient(1) # Recipient(2)
    /\ campaign_results[1].success
    /\ campaign_results[2].success

\* C4: a run over N >= 2 recipients suspends after every recipient except
\* the last, N-1 times in all, whatever the outcomes of the recipients,
\* those whose processing raised included.
C4_SuspendsAfterAllButLast ==
    (pc = "done" /\ total_emails >= 2) => sleeps = [i \in 1..(total_emails - 1) |-> i]

\* C4 as the code has it: the pause is the last statement of the try block,
\* so the run suspends after each recipient but the last whose iteration
\* raised nothing; a recipient whose processing raised is followed by no
\* suspension, and the run makes N-1 suspensions only when none of the
\* first N-1 recipients raised.
C4_SuspendsAfterRecipientsThatDidNotRaise ==
    (pc = "done" /\ total_emails >= 2) =>
        sleeps = SelectSeq([i \in 1..(total_emails - 1) |-> i],
                           LAMBDA p : campaign_results[p].message[1] # "Campaign error: ")

C4_Witness ==
    /\ pc = "done"
    /\ total_emails = 2
    /\ sleeps = <<1>>
    /\ campaign_results[1].success
    /\ campaign_results[2].message = <<"Campaign error: ", "TypeError">>

\* the rows of the run that are recorded in the log
RowsRecorded == IF pc \in {"callback", "delay"} THEN pos ELSE pos - 1

\* C5: every run_campaign call starts from an empty log: during and after a
\* second run on the same EmailSender the log holds results of that run
\* only.
C5_LogHoldsCurrentRunOnly ==
    runs >= 1 => Len(campaign_results) = RowsRecorded

C5_Witness ==
    /\ runs = 2
    /\ pc = "done"
    /\ total_emails = 1
    /\ Len(campaign_results) = 1

\* C7: once a send has been attempted the run reaches its end, with every
\* recipient gone through, whichever sends fail.
C7_RunCompletes ==
    (Len(sends) > 0) ~> (pc = "done" /\ pos = total_emails + 1)

C7_Witness ==
    /\ pc = "done"
    /\ Len(sends) = 2
    /\ sends[1].outcome = "unavailable"
    /\ sends[2].outcome = "raised"

-----------------------------------------------------------------------------
(* Properties of the page, checked under SpecApp *)

FirstSendFoundNoService ==
    Len(sends) > 0 /\ sends[1].pos = 1 /\ sends[1].outcome = "unavailable"

\* C6: when no service can be obtained before the first send attempt, the
\* run is aborted: the failure goes to the caller as a failure of the run
\* and the result log stays empty.
C6_AbortsWithoutTransport ==
    FirstSendFoundNoService => (campaign_results = <<>> /\ pc # "done")

\* C6 as the code has it: a send that finds no service is a failure of that
\* recipient only; its result is recorded with success = false and the
\* message "Gmail service not available", the loop goes on and run_campaign
\* returns a log with one result per recipient.
C6_NoServiceFailsTheRecipientOnly ==
    /\ \A k \in 1..Len(sends) :
         (sends[k].outcome = "unavailable" /\ (k < Len(sends) \/ pc # "record")) =>
            /\ Len(campaign_results) >= sends[k].pos
            /\ ~campaign_results[sends[k].pos].success
            /\ campaign_results[sends[k].pos].message = <<"Gmail service not available">>
    /\ (pc = "done" /\ FirstSendFoundNoService) => Len(campaign_results) = total_emails

C6_Witness ==
    /\ pc = "done"
    /\ total_emails = 2
    /\ FirstSendFoundNoService
    /\ Len(campaign_results) = 2
    /\ campaign_results[1].message = <<"Gmail service not available">>

\* C8: after an uploaded dataset has failed validation no campaign can be
\* started until a dataset that passes is uploaded, also when the failed
\* upload follows a valid one.
C8_NoCampaignAfterFailedUpload ==
    (validation.outcome # "none" /\ ~validation.is_valid) => pc = "idle"

-----------------------------------------------------------------------------
(* Properties of the composition, checked under SpecCompose and Spec *)

\* the text with each placeholder exchanged for the name it stands for
RECURSIVE Substituted(_, _, _)
Substituted(text, company, recruiter) ==
    IF text = <<>> THEN <<>>
    ELSE (CASE Head(text) \in {"[Company Name]", "[COMPANY]"} -> company
            [] Head(text) \in {"[Recruiter Name]", "[RECRUITER]"} -> recruiter
            [] OTHER -> <<Head(text)>>)
         \o Substituted(Tail(text), company, recruiter)

SubstitutedFor(text) == Substituted(text, row["Company Name"].v, row["Recruiter"].v)

HasToken(text) == \E i \in 1..Len(text) : text[i] \in Tokens

Composed == pc \in {"send", "record", "callback", "delay"}

\* C13: in manual mode the composed body is the body template with every
\* [Company Name] and [COMPANY] replaced by the company name and every
\* [Recruiter Name] and [RECRUITER] by the recruiter name; it holds none of
\* the four tokens, and no GeminiAI method is called.
C13_ManualBodyIsSubstitutedTemplate ==
    (Composed /\ Get("personalization_mode") = ManualMode) =>
        /\ cur.body = SubstitutedFor(args.email_template)
        /\ ~HasToken(cur.body)
        /\ cur.calls = <<>>
        /\ cur.gemini = "not called"

C13_Witness ==
    /\ pc = "send"
    /\ Get("personalization_mode") = ManualMode
    /\ args.email_template = <<"[RECRUITER]", "[Company Name]">>
    /\ cur.body = <<"Jane", "Acme">>

\* C14: the subject is substituted by the same rule as the body: all four
\* tokens are replaced, so a sent subject holds none of them.
C14_SentSubjectHasNoToken ==
    (pc = "record" /\ cur.success) => ~HasToken(cur.subject)

\* C15: with a saved override body in AI mode run_campaign calls neither
\* personalize_email nor extract_resume_content for any recipient; each
\* body is the override text with the placeholders substituted.
C15_OverrideBypassesGeneration ==
    (Composed /\ Get("personalization_mode") = AIMode /\ Has("preview_email_content")) =>
        /\ cur.calls = <<>>
        /\ cur.gemini = "not called"
        /\ cur.body = SubstitutedFor(Get("preview_email_content"))

C15_Witness ==
    /\ pc = "send"
    /\ pos = 2
    /\ Get("personalization_mode") = AIMode
    /\ Has("preview_email_content")
    /\ campaign_results[1].success
    /\ cur.body = <<"Hello", "Jane", "of", "Acme">>

\* C16: in AI mode without override, when the generation backend is not
\* available, raises, or returns empty or whitespace-only text, the body is
\* the manual substitution of the body template; personalize_email returns
\* no empty body for a template that is not empty.
C16_FallbackOnUnusableGeneration ==
    (Composed /\ cur.gemini \in {"no model", "raises", "empty", "blank"}) =>
        /\ cur.body = SubstitutedFor(args.email_template)
        /\ args.email_template # <<>> => cur.body # <<>>

-----------------------------------------------------------------------------
(* Properties of the progress callback and of the summary, checked under   *)
(* Spec, and of run_campaign under any caller, checked under SpecCaller    *)

\* C17: a progress callback that was given is invoked exactly once for
\* every result appended to the log, error results included, in log order,
\* after the append and before the delay; what the callback has seen is the
\* log.
C17_CallbackSeesEveryResult ==
    args.progress_callback =>
        reported = IF pc = "callback"
                   THEN SubSeq(campaign_results, 1, Len(campaign_results) - 1)
                   ELSE campaign_results

\* C18: get_campaign_summary is computed from the log as it stands at any
\* point: total is its length, successful the number of results with
\* success = True, failed the rest; when every send of a run over N
\* recipients fails the run completes with {total: N, successful: 0,
\* failed: N}.
C18_SummaryMatchesLog ==
    /\ get_campaign_summary.total = Len(campaign_results)
    /\ get_campaign_summary.successful
         = Cardinality({i \in 1..Len(campaign_results) : campaign_results[i].success})
    /\ get_campaign_summary.failed
         = Cardinality({i \in 1..Len(campaign_results) : ~campaign_results[i].success})
    /\ get_campaign_summary.failed = get_campaign_summary.total - get_campaign_summary.successful
    /\ (pc = "done" /\ \A k \in 1..Len(sends) : sends[k].outcome # "sent") =>
          get_campaign_summary = [total |-> total_emails, successful |-> 0,
                                  failed |-> total_emails]

C18_Witness ==
    /\ pc = "done"
    /\ total_emails = 2
    /\ Len(sends) = 2
    /\ sends[1].outcome = "unavailable"
    /\ sends[2].outcome = "raised"
    /\ get_campaign_summary = [total |-> 2, successful |-> 0, failed |-> 2]

CallbackRaised ==
    \E i \in 1..Len(campaign_results) :
        campaign_results[i].message = CampaignError("CallbackError")

\* C19: when the progress callback raises for a recipient whose result was
\* appended already, the exception stays inside run_campaign, the loop goes
\* on with the next recipient, and the log holds exactly one result for
\* that recipient, carrying the outcome of its send.
C19_CallbackFaultKeepsOneResult ==
    (pc = "done" /\ CallbackRaised) =>
        /\ pos = total_emails + 1
        /\ Len(campaign_results) = total_emails
        /\ \A k \in 1..Len(sends) :
             campaign_results[sends[k].pos].success = (sends[k].outcome = "sent")

NothingRaised ==
    \A i \in 1..Len(campaign_results) : campaign_results[i].message[1] # "Campaign error: "

\* C20: the test for the last recipient goes by position: over a DataFrame
\* whose row labels are not 0..N-1 in order the run suspends after each
\* recipient but the last in position, and not after that one.
C20_SuspendsByPosition ==
    (pc = "done" /\ total_emails >= 2 /\ NothingRaised) =>
        sleeps = [i \in 1..(total_emails - 1) |-> i]


-----------------------------------------------------------------------------
(* Strategy selection (email_sender.py 225-268) *)

\* the subject run_campaign derives from the configured subject template
TemplateSubject ==
    ReplaceSubjectPlaceholders(args.subject_template, row["Company Name"], row["Recruiter"]).text

\* C21: under the manual strategy a saved override has no effect: the body
\* is the body template with the placeholders substituted and the subject
\* is the configured subject template with the placeholders substituted,
\* also when the session holds an override subject or body.
C21_ManualIgnoresOverride ==
    (pc = "send" /\ cur.strategy = "manual") =>
        /\ cur.body = SubstitutedFor(args.email_template)
        /\ cur.subject = TemplateSubject

\* C22: one strategy governs a whole run: every message handed to the
\* transport in a run was composed by the same strategy, also when the
\* mode of the session changes between two iterations.
C22_OneStrategyPerRun ==
    \A i, j \in 1..Len(sends) : sends[i].strategy = sends[j].strategy


-----------------------------------------------------------------------------
(* Transport session (gmail_auth.py 137-149, email_sender.py 168-186) *)

\* C23: within one run, once a send has obtained the Gmail service, no
\* later send calls authenticate or builds a service: each uses the
\* service held by the authenticator; a send that finds no service or
\* whose Gmail call raises is a failed result of its recipient and nothing
\* else.
C23_ServiceObtainedOnce ==
    /\ \A i, j \in 1..Len(sends) :
          (i < j /\ sends[i].outcome # "unavailable") =>
              /\ sends[j].auth = "not called"
              /\ ~sends[j].build
              /\ sends[j].outcome # "unavailable"
    /\ pc = "record" =>
          /\ cur.success <=> sends[Len(sends)].outcome = "sent"
          /\ sends[Len(sends)].outcome = "unavailable" => cur.message = ServiceNotAvailable
          /\ sends[Len(sends)].outcome = "raised" => cur.message = FailedToSend("HttpError")

C23_Witness ==
    /\ pc = "record"
    /\ Len(sends) = 2
    /\ sends[1].outcome = "sent" /\ sends[1].build /\ sends[1].auth = "True"
    /\ sends[2].outcome = "raised" /\ ~sends[2].build /\ sends[2].auth = "not called"


-----------------------------------------------------------------------------
(* One send per recipient (email_sender.py 213-306) *)

\* C24: in one run each recipient gets at most one call of send_email, a
\* recipient whose composition raised gets none, and a send is started only
\* when every earlier recipient has its result in the log.
C24_AtMostOneSendEach ==
    /\ \A i, j \in 1..Len(sends) : i < j => sends[i].pos < sends[j].pos
    /\ \A k \in 1..Len(campaign_results) :
          campaign_results[k].subject = <<"Error">> =>
              ~\E i \in 1..Len(sends) : sends[i].pos = k
    /\ pc \in {"send", "record"} => Len(campaign_results) = pos - 1

C24_Witness ==
    /\ Len(campaign_results) = 2
    /\ campaign_results[1].subject = <<"Error">>
    /\ ~campaign_results[2].success
    /\ Len(sends) = 1
    /\ sends[1].pos = 2
    /\ sends[1].outcome = "raised"


-----------------------------------------------------------------------------
(* The stored dataset (app.py 101-128) *)

\* C27: the session entry company_data is only ever written with the
\* dataset just read, for which validate_company_data returned ok; an
\* upload that fails validation or cannot be read leaves the entry as it
\* was.
C27_OnlyValidatedDatasetStored ==
    [][/\ session_state'.company_data # session_state.company_data =>
            /\ validation'.outcome = "returned"
            /\ validation'.is_valid
            /\ session_state'.company_data = <<df'>>
            /\ validate_company_data(df').is_valid
       /\ (validation' # validation /\ ~validation'.is_valid) =>
            session_state'.company_data = session_state.company_data]_vars

C27_Witness ==
    /\ Has("company_data")
    /\ len(Get("company_data")) = 2
    /\ df = Get("company_data")
    /\ validation = Raised


-----------------------------------------------------------------------------
(* Launching a campaign (app.py 358-391) *)

\* C28: execute_campaign runs, and a send is made, only in a state where
\* the session holds Gmail credentials, a company dataset, an email
\* template and a resume entry and every required environment variable is
\* set.
C28_CampaignNeedsAllPrerequisites ==
    (pc # "idle" \/ Len(sends) > 0) =>
        /\ session_state.gmail_credentials # Absent
        /\ session_state.company_data # Absent
        /\ session_state.email_template # Absent
        /\ session_state.resume_file # Absent
        /\ \A i \in 1..Len(required_vars) : required_vars[i] \in environ

C28_Witness ==
    /\ pc = "record"
    /\ Len(sends) = 1
    /\ sends[1].outcome = "sent"
    /\ runs = 1


-----------------------------------------------------------------------------
(* The results kept in the session (app.py 433-469) *)

\* C30: after a campaign has completed in the app, the session entries
\* campaign_results_data and campaign_results both hold exactly the results
\* of that run, also when several campaigns are run one after another.
C30_SessionHoldsLastRunOnly ==
    (pc = "idle" /\ Has("campaign_results_data")) =>
        (IF Has("campaign_results") THEN Get("campaign_results") ELSE <<>>)
            = Get("campaign_results_data")


-----------------------------------------------------------------------------
(* GmailAuthenticator.authenticate (gmail_auth.py 56-135) *)

\* C29: authenticate returns True only when the authenticator then holds
\* valid credentials, and only then are credentials written to the session;
\* with credentials that are invalid and cannot be refreshed it returns
\* False; on an error it removes the credentials entry of the session.
C29_TrueOnlyWithValidCredentials ==
    pc = "record" =>
        LET attempt == sends[Len(sends)].auth
        IN  /\ attempt = "True" =>
                 /\ credentials = "valid"
                 /\ session_state.gmail_credentials = <<"valid">>
            /\ attempt \in {"False", "error"} => credentials = "none"
            /\ attempt = "error" => session_state.gmail_credentials = Absent


-----------------------------------------------------------------------------
(* The saved override of the page (app.py 154-164, 279-318), under
   SpecPreview *)

OverrideBodySaved == session_state.preview_email_content # Absent
OverrideSubjectSaved == session_state.preview_email_subject # Absent

ModeSwitched == session_state'.personalization_mode # session_state.personalization_mode

\* C25: in every state of the session the saved override body and the saved
\* override subject are both present or both absent; "Save This Version"
\* sets both, "Reset to AI" and a change of mode remove both.
C25_OverrideBothOrNeither ==
    [][/\ OverrideBodySaved <=> OverrideSubjectSaved
       /\ OverrideBodySaved' <=> OverrideSubjectSaved'
       /\ session_state'.preview_email_content \notin {Absent, session_state.preview_email_content}
             => OverrideSubjectSaved'
       /\ session_state'.preview_email_subject \notin {Absent, session_state.preview_email_subject}
             => OverrideBodySaved'
       /\ (ModeSwitched \/ session_state'.reset_counter # session_state.reset_counter)
             => (~OverrideBodySaved' /\ ~OverrideSubjectSaved')]_vars

C25_Witness ==
    /\ session_state.preview_email_content = <<EditedBody>>
    /\ session_state.preview_email_subject = session_state.preview_subject
    /\ session_state.reset_counter = <<1>>

OverrideOnlyInAIMode ==
    (OverrideBodySaved \/ OverrideSubjectSaved) =>
        /\ Get("personalization_mode") = AIMode
        /\ session_state.preview_content # Absent
        /\ session_state.preview_mode = <<"ai">>

\* C26: whenever the session holds a saved override the selected mode is AI
\* personalization; a change of mode removes the override and every preview
\* field; an override is saved only from a preview made in AI mode; so a
\* campaign in manual mode finds no override and composes subject and body
\* from the templates.
C26_OverrideOnlyInAIMode ==
    [][/\ OverrideOnlyInAIMode
       /\ OverrideOnlyInAIMode'
       /\ ModeSwitched => \A k \in preview_keys : session_state'[k] = Absent
       /\ (pc' = "send" /\ cur'.strategy = "manual") =>
             /\ ~OverrideBodySaved' /\ ~OverrideSubjectSaved'
             /\ cur'.body = SubstitutedFor(args.email_template)'
             /\ cur'.subject = TemplateSubject']_vars

C26_Witness ==
    /\ pc = "send"
    /\ cur.strategy = "manual"
    /\ runs = 2
    /\ session_state.preview_mode = <<"manual">>
    /\ Len(Get("campaign_results")) = 2

====
